---------------------------- MODULE Spec2Model ----------------------------
(***************************************************************************)
(* A model of MontageSubs/ass-tools:                                       *)
(*   scripts/python/ass-drawing-subsetter.py  (ass_uuencode and the        *)
(*       ASSDrawingSubsetter pipeline: load_and_extract, create_subset_ttf,*)
(*       rewrite_ass, run)                                                 *)
(*   scripts/python/ass-font-extractor.py     (ass_uudecode and            *)
(*       extract_font_agnostic)                                            *)
(*                                                                         *)
(* Text is a sequence of Unicode code points, bytes are a sequence of      *)
(* numbers 0..255.  An optional value (Python's None, a file that does not *)
(* exist) is a sequence of length 0, a present value a sequence of         *)
(* length 1.                                                               *)
(***************************************************************************)
EXTENDS Integers, Sequences, FiniteSets, TLC

VARIABLES
    input_exists,     \* os.path.exists(self.input_ass)
    file_text,        \* the text of the input document on disk
    prefix_shapes,    \* distinct shapes registered from a part of the document
                      \* before `content` that the model does not spell out
    content,          \* self.content
    matches,          \* the list re.findall returned in load_and_extract
    scan_i,           \* position of the for loop of load_and_extract in matches
    seen,             \* the local dict `seen` of load_and_extract
    drawings,         \* self.drawings
    drawing_to_char,  \* self.drawing_to_char
    ttf_data,         \* what create_subset_ttf returned (optional)
    callback_log,     \* what replace_callback returned, one entry per match
    subbed_text,      \* final_text of rewrite_ass after lines 187-188 (optional)
    final_ass,        \* what rewrite_ass returned (optional)
    output_file,      \* the output file (optional: absent until opened)
    pc,               \* where ASSDrawingSubsetter.run stands
    extracted,        \* the files extract_font_agnostic wrote: name -> bytes
    cdata,            \* codec check: the bytes given to ass_uuencode
    cenc,             \* codec check: the string ass_uuencode returned (optional)
    cdec,             \* codec check: the bytes ass_uudecode returned (optional)
    cpc               \* codec check: position

vars == <<input_exists, file_text, prefix_shapes, content, matches, scan_i,
          seen, drawings, drawing_to_char, ttf_data, callback_log, subbed_text,
          final_ass, output_file, pc, extracted, cdata, cenc, cdec, cpc>>

runVars == <<input_exists, file_text, prefix_shapes, content, matches, scan_i,
             seen, drawings, drawing_to_char, ttf_data, callback_log,
             subbed_text, final_ass, output_file, pc, extracted>>

codecVars == <<cdata, cenc, cdec, cpc>>

(***************************************************************************)
(* Bounds of the model.                                                    *)
(***************************************************************************)
\* longest byte sequence given to the codec check
MaxBytes == 4
\* most fragments a modelled document is made of
MaxParts == 3

(***************************************************************************)
(* Generic helpers on sequences.                                           *)
(***************************************************************************)
RECURSIVE Concat(_)
Concat(ss) == IF ss = <<>> THEN <<>> ELSE Head(ss) \o Concat(Tail(ss))

RECURSIVE SeqsUpTo(_, _)
SeqsUpTo(S, n) ==
    IF n = 0 THEN {<<>>}
    ELSE LET shorter == SeqsUpTo(S, n - 1)
         IN  shorter \cup {Append(s, x) : s \in shorter, x \in S}

Some(x) == <<x>>
None == <<>>

\* s[i:j] of Python, with 1-based inclusive bounds lo..hi
Slice(s, lo, hi) == IF hi < lo THEN <<>> ELSE SubSeq(s, lo, hi)

Min(a, b) == IF a <= b THEN a ELSE b

(***************************************************************************)
(* ass_uuencode (ass-drawing-subsetter.py, lines 85-105)                   *)
(***************************************************************************)
\* the loop body without lines 99-103: the characters of the padding stay
uuencode_chunk_keeps_padding(chunk) ==
    LET padded == chunk \o [k \in 1..(3 - Len(chunk)) |-> 0]
        v      == padded[1] * 65536 + padded[2] * 256 + padded[3]
    IN  << ((v \div 262144) % 64) + 33, ((v \div 4096) % 64) + 33,
           ((v \div 64) % 64) + 33, (v % 64) + 33 >>

\* one pass of the loop body: chunk is data[i:i+3], 1 to 3 bytes
uuencode_chunk(chunk) ==
    LET padding == 3 - Len(chunk)
        padded  == chunk \o [k \in 1..padding |-> 0]
        v       == padded[1] * 65536 + padded[2] * 256 + padded[3]
        chars   == << ((v \div 262144) % 64) + 33,
                      ((v \div 4096) % 64) + 33,
                      ((v \div 64) % 64) + 33,
                      (v % 64) + 33 >>
    IN  IF padding = 1 THEN SubSeq(chars, 1, 3)
        ELSE IF padding = 2 THEN SubSeq(chars, 1, 2)
        ELSE chars

RECURSIVE uuencode_from(_, _)
uuencode_from(data, i) ==
    IF i > Len(data) THEN <<>>
    ELSE uuencode_chunk(Slice(data, i, Min(i + 2, Len(data))))
         \o uuencode_from(data, i + 3)

ass_uuencode(data) == uuencode_from(data, 1)

(***************************************************************************)
(* ass_uudecode (ass-font-extractor.py, lines 28-39)                       *)
(***************************************************************************)
uu_symbol(c) == 33 <= c /\ c <= 96

\* data = [ord(c) - 33 for c in encoded_str if 33 <= ord(c) <= 96]
uudecode_values(encoded_str) ==
    LET kept == SelectSeq(encoded_str, uu_symbol)
    IN  [k \in 1..Len(kept) |-> kept[k] - 33]

\* one pass of the loop body for a group c of 2 to 4 values
uudecode_group(c) ==
    LET p == c \o [k \in 1..(4 - Len(c)) |-> 0]
        v == p[1] * 262144 + p[2] * 4096 + p[3] * 64 + p[4]
    IN  << (v \div 65536) % 256 >>
        \o (IF Len(c) >= 3 THEN << (v \div 256) % 256 >> ELSE <<>>)
        \o (IF Len(c) >= 4 THEN << v % 256 >> ELSE <<>>)

RECURSIVE uudecode_from(_, _)
uudecode_from(data, i) ==
    IF i > Len(data) THEN <<>>
    ELSE LET c == Slice(data, i, Min(i + 3, Len(data)))
         IN  IF Len(c) < 2 THEN <<>>      \* break
             ELSE uudecode_group(c) \o uudecode_from(data, i + 4)

ass_uudecode(encoded_str) == uudecode_from(uudecode_values(encoded_str), 1)

(***************************************************************************)
(* Text helpers: what Python's str methods do on code points.              *)
(***************************************************************************)
\* str.isspace of one character: the characters split() and strip() drop
IsSpace(c) ==
    \/ c \in 9..13
    \/ c \in 28..32
    \/ c \in {133, 160, 5760, 8232, 8233, 8239, 8287, 12288}
    \/ c \in 8192..8202

\* str.lower and re.IGNORECASE on the ASCII letters (the modelled documents
\* hold no other cased character)
Lower(c) == IF c >= 65 /\ c <= 90 THEN c + 32 ELSE c

LowerStr(s) == [k \in 1..Len(s) |-> Lower(s[k])]

\* s.startswith(prefix, at position i), 1-based
StartsWithAt(s, i, prefix) ==
    /\ i >= 1
    /\ i + Len(prefix) - 1 <= Len(s)
    /\ \A k \in 1..Len(prefix) : s[i + k - 1] = prefix[k]

EndsWith(s, suffix) == StartsWithAt(s, Len(s) - Len(suffix) + 1, suffix)

\* the least element of a non-empty set of numbers
Least(S) == CHOOSE k \in S : \A j \in S : k <= j
Greatest(S) == CHOOSE k \in S : \A j \in S : k >= j

\* str.strip()
Strip(s) ==
    LET solid == {k \in 1..Len(s) : ~IsSpace(s[k])}
    IN  IF solid = {} THEN <<>> ELSE SubSeq(s, Least(solid), Greatest(solid))

\* str.split(): the maximal runs of non-whitespace characters
RECURSIVE split_from(_, _)
split_from(s, i) ==
    IF i > Len(s) THEN <<>>
    ELSE IF IsSpace(s[i]) THEN split_from(s, i + 1)
    ELSE LET e == Least({k \in i..Len(s) : k = Len(s) \/ IsSpace(s[k + 1])})
         IN  <<SubSeq(s, i, e)>> \o split_from(s, e + 1)

Split(s) == split_from(s, 1)

\* " ".join(parts)
RECURSIVE JoinSpace(_)
JoinSpace(parts) ==
    IF parts = <<>> THEN <<>>
    ELSE IF Len(parts) = 1 THEN parts[1]
    ELSE parts[1] \o <<32>> \o JoinSpace(Tail(parts))

\* clean_d = " ".join(drawing_data.split()).strip()   (lines 127 and 179)
clean_d(drawing_data) == Strip(JoinSpace(Split(drawing_data)))

(***************************************************************************)
(* Program constants (ass-drawing-subsetter.py, lines 82-83).              *)
(***************************************************************************)
\* FONT_NAME = "ASSDrawSubset"
FONT_NAME == <<65, 83, 83, 68, 114, 97, 119, 83, 117, 98, 115, 101, 116>>
\* ord(START_CHAR), START_CHAR = 'a'
START_CHAR == 97
\* the largest argument chr() takes (sys.maxunicode); chr raises ValueError
\* above it
MAX_UNICODE == 1114111
\* the width of a data line of the font block (line 194)
LINE_WIDTH == 80

(***************************************************************************)
(* The drawing-block pattern (lines 122 and 187), with re.DOTALL and       *)
(* re.IGNORECASE:   (\{[^}]*?\\p[1-9][^}]*\})(.*?)(\{\\p0\})               *)
(*                                                                         *)
(* Group 1 starts at a "{" and runs to the first "}" after it, since none  *)
(* of its parts matches "}"; it must hold \p and a digit 1-9.  Group 2 is  *)
(* lazy, so group 3 is the first "{\p0}" after group 1.                    *)
(***************************************************************************)
\* \\p[1-9] matches at position k of s
draw_directive_at(s, k) ==
    /\ k >= 1
    /\ k + 2 <= Len(s)
    /\ s[k] = 92
    /\ Lower(s[k + 1]) = 112
    /\ s[k + 2] \in 49..57

\* \{\\p0\} matches at position k of s
end_tag_at(s, k) ==
    /\ k >= 1
    /\ k + 4 <= Len(s)
    /\ s[k] = 123
    /\ s[k + 1] = 92
    /\ Lower(s[k + 2]) = 112
    /\ s[k + 3] = 48
    /\ s[k + 4] = 125

NoMatch == [start |-> 0, tag_end |-> 0, end_start |-> 0, stop |-> 0]

\* the match of the pattern that starts at position i of s, or NoMatch
match_at(s, i) ==
    IF i < 1 \/ i > Len(s) \/ s[i] # 123 THEN NoMatch
    ELSE LET closes == {j \in (i + 1)..Len(s) : s[j] = 125}
         IN  IF closes = {} THEN NoMatch
             ELSE LET j    == Least(closes)
                      ends == {e \in (j + 1)..Len(s) : end_tag_at(s, e)}
                  IN  IF \/ ~(\E k \in (i + 1)..(j - 3) : draw_directive_at(s, k))
                         \/ ends = {}
                      THEN NoMatch
                      ELSE [start |-> i, tag_end |-> j,
                            end_start |-> Least(ends), stop |-> Least(ends) + 4]

\* the non-overlapping matches, left to right, from position `from` on
\* (the scan of re.findall and of re.sub)
RECURSIVE find_spans(_, _)
find_spans(s, from) ==
    LET starts == {i \in from..Len(s) : match_at(s, i) # NoMatch}
    IN  IF starts = {} THEN <<>>
        ELSE LET m == match_at(s, Least(starts))
             IN  <<m>> \o find_spans(s, m.stop + 1)

\* match.group(1), match.group(2), match.group(3), match.group(0)
group1(s, m) == SubSeq(s, m.start, m.tag_end)
group2(s, m) == Slice(s, m.tag_end + 1, m.end_start - 1)
group3(s, m) == SubSeq(s, m.end_start, m.stop)
group0(s, m) == SubSeq(s, m.start, m.stop)

\* re.findall(pattern, self.content, ...): the (start_tag, drawing_data,
\* end_tag) tuples
re_findall(s) ==
    LET spans == find_spans(s, 1)
    IN  [k \in 1..Len(spans) |->
            <<group1(s, spans[k]), group2(s, spans[k]), group3(s, spans[k])>>]

(***************************************************************************)
(* rewrite_ass (ass-drawing-subsetter.py, lines 175-197)                   *)
(***************************************************************************)
\* dict.get(key): the value (a one-character string) or None
dict_get(d, key) == IF key \in DOMAIN d THEN Some(d[key]) ELSE None

\* re.sub(r'\\p[1-9]', r'\\fn%s\\p0' % FONT_NAME, start_tag, flags=re.I)
RECURSIVE sub_draw_mode(_, _)
sub_draw_mode(tag, i) ==
    IF i > Len(tag) THEN <<>>
    ELSE IF draw_directive_at(tag, i)
         THEN <<92, 102, 110>> \o FONT_NAME \o <<92, 112, 48>>
              \o sub_draw_mode(tag, i + 3)
         ELSE <<tag[i]>> \o sub_draw_mode(tag, i + 1)

\* the callback with the payload as it stands as the key, not clean_d
replace_callback_raw_key(s, m, d2c) ==
    LET char == dict_get(d2c, group2(s, m))
    IN  IF char # None /\ char[1] # <<>>
        THEN sub_draw_mode(group1(s, m), 1) \o char[1]
        ELSE group0(s, m)

\* replace_callback(match), lines 176-185
replace_callback(s, m, d2c) ==
    LET start_tag == group1(s, m)
        key       == clean_d(group2(s, m))
        char      == dict_get(d2c, key)
    IN  IF char # None /\ char[1] # <<>>
        THEN sub_draw_mode(start_tag, 1) \o char[1]
        ELSE group0(s, m)

\* re.sub(pattern, replace_callback, self.content, ...), lines 187-188:
\* the text between the matches is copied, each match is replaced
RECURSIVE sub_blocks_from(_, _, _, _)
sub_blocks_from(s, spans, k, pos) ==
    IF k > Len(spans) THEN Slice(s, pos, Len(s))
    ELSE Slice(s, pos, spans[k].start - 1)
         \o spans[k].text
         \o sub_blocks_from(s, spans, k + 1, spans[k].stop + 1)

\* the matches of the pattern in s, each with its replacement text
replaced_spans(s, d2c) ==
    LET spans == find_spans(s, 1)
    IN  [k \in 1..Len(spans) |->
            [start |-> spans[k].start, stop |-> spans[k].stop,
             text  |-> replace_callback(s, spans[k], d2c)]]

sub_blocks(s, d2c) == sub_blocks_from(s, replaced_spans(s, d2c), 1, 1)

\* "\n[Fonts]"
FONTS_PATTERN == <<10, 91, 70, 111, 110, 116, 115, 93>>

\* where r'\n\[Fonts\].*' (re.DOTALL) first matches in t, or Len(t) + 1
fonts_cut(t) ==
    LET hits == {k \in 1..Len(t) : StartsWithAt(t, k, FONTS_PATTERN)}
    IN  IF hits = {} THEN Len(t) + 1 ELSE Least(hits)

\* the removal with the pattern \[Fonts\].* : no line start is asked for
remove_fonts_anywhere(t) ==
    LET hits == {k \in 1..Len(t) : StartsWithAt(t, k, Tail(FONTS_PATTERN))}
    IN  IF hits = {} THEN t ELSE Slice(t, 1, Least(hits) - 1)

\* re.sub(r'\n\[Fonts\].*', '', final_text, flags=re.DOTALL), line 190
remove_fonts(t) == Slice(t, 1, fonts_cut(t) - 1)

\* f"\n\n[Fonts]\nfontname: {FONT_NAME}_0.ttf\n", line 193
FONT_BLOCK_HEAD ==
    <<10, 10, 91, 70, 111, 110, 116, 115, 93, 10,
      102, 111, 110, 116, 110, 97, 109, 101, 58, 32>>
    \o FONT_NAME \o <<95, 48, 46, 116, 116, 102, 10>>

\* for i in range(0, len(encoded), 80): font_block += encoded[i:i+80] + "\n"
RECURSIVE wrap_lines(_, _)
wrap_lines(encoded, i) ==
    IF i > Len(encoded) THEN <<>>
    ELSE Slice(encoded, i, Min(i + LINE_WIDTH - 1, Len(encoded))) \o <<10>>
         \o wrap_lines(encoded, i + LINE_WIDTH)

font_block(data) == FONT_BLOCK_HEAD \o wrap_lines(ass_uuencode(data), 1)

\* the text of line 190, before the font block is appended
final_text(s, d2c) == Strip(remove_fonts(sub_blocks(s, d2c)))

rewrite_ass(s, d2c, data) == final_text(s, d2c) \o font_block(data)

(***************************************************************************)
(* extract_font_agnostic (ass-font-extractor.py, lines 41-81)              *)
(***************************************************************************)
\* f.readlines(): the lines of the text, each with its "\n"
RECURSIVE readlines_from(_, _)
readlines_from(t, i) ==
    IF i > Len(t) THEN <<>>
    ELSE LET nls == {k \in i..Len(t) : t[k] = 10}
             e   == IF nls = {} THEN Len(t) ELSE Least(nls)
         IN  <<SubSeq(t, i, e)>> \o readlines_from(t, e + 1)

readlines(t) == readlines_from(t, 1)

\* "[fonts]" and "fontname:"
FONTS_HEADER_LOWER == <<91, 102, 111, 110, 116, 115, 93>>
FONTNAME_KEY == <<102, 111, 110, 116, 110, 97, 109, 101, 58>>

\* the state before the loop of lines 51-67: fonts is the dict, as the
\* sequence of its <<name, data_list>> items in insertion order
ExtractStart == [collecting |-> FALSE, current_font |-> None, fonts |-> <<>>]

\* fonts[name] = []  (a name already present keeps its place)
fonts_reset(fonts, name) ==
    IF \E k \in 1..Len(fonts) : fonts[k][1] = name
    THEN [k \in 1..Len(fonts) |->
             IF fonts[k][1] = name THEN <<name, <<>>>> ELSE fonts[k]]
    ELSE Append(fonts, <<name, <<>>>>)

\* fonts[name].append(line)
fonts_append(fonts, name, line) ==
    [k \in 1..Len(fonts) |->
        IF fonts[k][1] = name THEN <<name, Append(fonts[k][2], line)>>
        ELSE fonts[k]]

\* one pass of the loop body, lines 52-67
extract_line(st, line) ==
    LET clean_line == Strip(line)
    IN  IF LowerStr(clean_line) = FONTS_HEADER_LOWER
        THEN [st EXCEPT !.collecting = TRUE]
        ELSE IF /\ st.collecting
                /\ StartsWithAt(clean_line, 1, <<91>>)
                /\ EndsWith(clean_line, <<93>>)
        THEN [st EXCEPT !.collecting = FALSE, !.current_font = None]
        ELSE IF ~st.collecting THEN st
        ELSE IF StartsWithAt(LowerStr(clean_line), 1, FONTNAME_KEY)
        THEN LET name == Strip(Slice(clean_line, Len(FONTNAME_KEY) + 1,
                                     Len(clean_line)))
             IN  [st EXCEPT !.current_font = Some(name),
                            !.fonts = fonts_reset(st.fonts, name)]
        ELSE IF st.current_font # None /\ st.current_font[1] # <<>>
        THEN [st EXCEPT !.fonts =
                 fonts_append(st.fonts, st.current_font[1], clean_line)]
        ELSE st

RECURSIVE extract_lines(_, _, _)
extract_lines(st, lines, k) ==
    IF k > Len(lines) THEN st
    ELSE extract_lines(extract_line(st, lines[k]), lines, k + 1)

\* name.replace("/", "_").replace("\\", "_")
safe_name(name) ==
    [k \in 1..Len(name) |-> IF name[k] \in {47, 92} THEN 95 ELSE name[k]]

\* "".join(data_list).replace(" ", "")
encoded_raw(data_list) == SelectSeq(Concat(data_list), LAMBDA c : c # 32)

\* lines 69-76: the files written, as <<safe_name, decoded>> in the order
\* they are written (a later file of the same name replaces an earlier one)
written_fonts(fonts) ==
    [k \in 1..Len(fonts) |->
        <<safe_name(fonts[k][1]), ass_uudecode(encoded_raw(fonts[k][2]))>>]

extract_font_agnostic(text) ==
    written_fonts(extract_lines(ExtractStart, readlines(text), 1).fonts)

\* the content of the file `name` after the writes, or None
file_after(writes, name) ==
    LET hits == {k \in 1..Len(writes) : writes[k][1] = name}
    IN  IF hits = {} THEN None ELSE Some(writes[Greatest(hits)][2])

(***************************************************************************)
(* The inputs of the model.                                                *)
(***************************************************************************)
\* the byte values the codec check draws from: the ends of the range and
\* values around the 6-bit boundaries of the packing
ByteValues == {0, 1, 3, 60, 64, 232, 255}

\* the fragments a modelled document is made of
FRAG_START     == <<123, 92, 112, 49, 125>>                  \* {\p1}
FRAG_END       == <<123, 92, 112, 48, 125>>                  \* {\p0}
FRAG_PATH      == <<109, 32, 48>>                            \* m 0
FRAG_NEWLINE   == <<10>>
FRAG_FONTS     == <<91, 70, 111, 110, 116, 115, 93>>         \* [Fonts]
\* {\p1}m 0{\p0}
FRAG_BLOCK     == FRAG_START \o FRAG_PATH \o FRAG_END
\* {\p1} m  0{\P0} : the shape of FRAG_BLOCK with other whitespace
FRAG_BLOCK_WS  == FRAG_START \o <<32, 109, 32, 32, 48>> \o <<123, 92, 80, 48, 125>>
\* {\P2\b1}l 1 {\p0} : another shape, an upper-case directive, a second directive
FRAG_BLOCK_2   == <<123, 92, 80, 50, 92, 98, 49, 125, 108, 32, 49, 32>> \o FRAG_END
\* {\p1} {\p0} : a block with a whitespace-only payload
FRAG_BLOCK_E   == FRAG_START \o <<32>> \o FRAG_END
\* {\p0\r} : a tag that sets drawing mode 0 and carries a second directive
FRAG_END_R     == <<123, 92, 112, 48, 92, 114, 125>>

Fragments == {FRAG_START, FRAG_END, FRAG_NEWLINE, FRAG_FONTS, FRAG_BLOCK,
              FRAG_BLOCK_WS, FRAG_BLOCK_2, FRAG_BLOCK_E, FRAG_END_R}

\* the documents: up to MaxParts fragments, concatenated
Documents == {Concat(parts) : parts \in SeqsUpTo(Fragments, MaxParts)}

\* length of the long font container below
LongTtfLen == 61
\* the byte sequences create_subset_ttf returns in the model: one that
\* encodes to the one line "[!!]", and one that encodes to more than
\* LINE_WIDTH characters and whose length is not a multiple of 3
TtfOutputs == { <<232, 0, 60>>,
                [k \in 1..LongTtfLen |-> (k * 37) % 256] }

(***************************************************************************)
(* ASSDrawingSubsetter.run (lines 199-214) and the methods it calls.       *)
(* pc: "start" -> "scan" -> "loaded" -> "rewrite" -> "write" -> "done"     *)
(*     -> "verified".  The run also ends at "exit1" (sys.exit(1), the      *)
(*     input is missing), "returned" (the early return of run),            *)
(*     "chr_failed" (chr raised ValueError), "ttf_failed" (the font        *)
(*     libraries raised) and "write_failed" (the text cannot be encoded).  *)
(***************************************************************************)
\* a chr that takes any number
chr_never_raises(n) == FALSE

\* chr(n) raises ValueError for n above sys.maxunicode
chr_raises(n) == n > MAX_UNICODE

\* len(seen)
len_seen == prefix_shapes + Cardinality(DOMAIN seen)

\* load_and_extract, lines 115-123: the file is missing (sys.exit(1)), or
\* it is read and scanned for the drawing blocks
Load ==
    /\ pc = "start"
    /\ IF ~input_exists
       THEN /\ pc' = "exit1"
            /\ UNCHANGED <<content, matches, scan_i>>
       ELSE /\ content' = file_text
            /\ matches' = re_findall(file_text)
            /\ scan_i' = 1
            /\ pc' = "scan"
    /\ UNCHANGED <<input_exists, file_text, prefix_shapes, seen, drawings,
                   drawing_to_char, ttf_data, callback_log, subbed_text,
                   final_ass, output_file, extracted>>
    /\ UNCHANGED codecVars

\* the loop body without `clean_d not in seen` in line 128: a shape seen
\* again is given the next character
ScanStep_reassigns ==
    /\ pc = "scan"
    /\ scan_i <= Len(matches)
    /\ LET key == clean_d(matches[scan_i][2])
       IN  IF key # <<>>
           THEN /\ seen' = [d \in DOMAIN seen \cup {key} |->
                               IF d = key THEN <<START_CHAR + len_seen>>
                               ELSE seen[d]]
                /\ drawings' = Append(drawings, key)
           ELSE UNCHANGED <<seen, drawings>>
    /\ scan_i' = scan_i + 1
    /\ pc' = pc
    /\ UNCHANGED <<input_exists, file_text, prefix_shapes, content,
                   matches, drawing_to_char, ttf_data, callback_log,
                   subbed_text, final_ass, output_file, extracted>>
    /\ UNCHANGED codecVars

\* the loop body with the payload as it stands as the key, not clean_d
ScanStep_raw_key ==
    /\ pc = "scan"
    /\ scan_i <= Len(matches)
    /\ LET key == matches[scan_i][2]
       IN  IF key # <<>> /\ key \notin DOMAIN seen
           THEN /\ seen' = [d \in DOMAIN seen \cup {key} |->
                               IF d = key THEN <<START_CHAR + len_seen>>
                               ELSE seen[d]]
                /\ drawings' = Append(drawings, key)
           ELSE UNCHANGED <<seen, drawings>>
    /\ scan_i' = scan_i + 1
    /\ pc' = pc
    /\ UNCHANGED <<input_exists, file_text, prefix_shapes, content,
                   matches, drawing_to_char, ttf_data, callback_log,
                   subbed_text, final_ass, output_file, extracted>>
    /\ UNCHANGED codecVars

\* one pass of the for loop of load_and_extract, lines 126-131
ScanStep ==
    /\ pc = "scan"
    /\ scan_i <= Len(matches)
    /\ LET drawing_data == matches[scan_i][2]
           key          == clean_d(drawing_data)
       IN  IF key # <<>> /\ key \notin DOMAIN seen
           THEN IF chr_raises(START_CHAR + len_seen)
                THEN /\ pc' = "chr_failed"
                     /\ UNCHANGED <<seen, drawings, scan_i>>
                ELSE /\ seen' = [d \in DOMAIN seen \cup {key} |->
                                    IF d = key THEN <<START_CHAR + len_seen>>
                                    ELSE seen[d]]
                     /\ drawings' = Append(drawings, key)
                     /\ scan_i' = scan_i + 1
                     /\ pc' = pc
           ELSE /\ scan_i' = scan_i + 1
                /\ UNCHANGED <<seen, drawings, pc>>
    /\ UNCHANGED <<input_exists, file_text, prefix_shapes, content,
                   matches, drawing_to_char, ttf_data, callback_log,
                   subbed_text, final_ass, output_file, extracted>>
    /\ UNCHANGED codecVars

\* the end of load_and_extract, line 133
ScanDone ==
    /\ pc = "scan"
    /\ scan_i > Len(matches)
    /\ drawing_to_char' = seen
    /\ pc' = "loaded"
    /\ UNCHANGED <<input_exists, file_text, prefix_shapes, content,
                   matches, scan_i, seen, drawings, ttf_data, callback_log,
                   subbed_text, final_ass, output_file, extracted>>
    /\ UNCHANGED codecVars

\* not self.drawings
no_drawings == prefix_shapes = 0 /\ drawings = <<>>

\* run without the return of line 203: the run goes on with no shape
NoDrawings_no_return ==
    /\ pc = "loaded"
    /\ no_drawings
    /\ \E data \in TtfOutputs : ttf_data' = Some(data)
    /\ pc' = "rewrite"
    /\ UNCHANGED <<input_exists, file_text, prefix_shapes, content, matches,
                   scan_i, seen, drawings, drawing_to_char, callback_log,
                   subbed_text, final_ass, output_file, extracted>>
    /\ UNCHANGED codecVars

\* run, lines 201-203: no shape was found
NoDrawings ==
    /\ pc = "loaded"
    /\ no_drawings
    /\ pc' = "returned"
    /\ UNCHANGED <<input_exists, file_text, prefix_shapes, content,
                   matches, scan_i, seen, drawings, drawing_to_char,
                   ttf_data, callback_log, subbed_text, final_ass,
                   output_file, extracted>>
    /\ UNCHANGED codecVars

\* run, line 206: create_subset_ttf (FontForge and FontTools) returns the
\* bytes of a font
CreateSubsetTtf ==
    /\ pc = "loaded"
    /\ ~no_drawings
    /\ \E data \in TtfOutputs : ttf_data' = Some(data)
    /\ pc' = "rewrite"
    /\ UNCHANGED <<input_exists, file_text, prefix_shapes, content,
                   matches, scan_i, seen, drawings, drawing_to_char,
                   callback_log, subbed_text, final_ass, output_file,
                   extracted>>
    /\ UNCHANGED codecVars

\* run, line 206: create_subset_ttf raises (FontForge or FontTools fails)
CreateSubsetTtfFails ==
    /\ pc = "loaded"
    /\ ~no_drawings
    /\ pc' = "ttf_failed"
    /\ UNCHANGED <<input_exists, file_text, prefix_shapes, content,
                   matches, scan_i, seen, drawings, drawing_to_char,
                   ttf_data, callback_log, subbed_text, final_ass,
                   output_file, extracted>>
    /\ UNCHANGED codecVars

\* run, line 209: rewrite_ass; callback_log and subbed_text keep what the
\* callback returned and the text after the block replacements
RewriteAss ==
    /\ pc = "rewrite"
    /\ callback_log' = [k \in 1..Len(find_spans(content, 1)) |->
                           replaced_spans(content, drawing_to_char)[k].text]
    /\ subbed_text' = Some(sub_blocks(content, drawing_to_char))
    /\ final_ass' = Some(rewrite_ass(content, drawing_to_char, ttf_data[1]))
    /\ pc' = "write"
    /\ UNCHANGED <<input_exists, file_text, prefix_shapes, content,
                   matches, scan_i, seen, drawings, drawing_to_char,
                   ttf_data, output_file, extracted>>
    /\ UNCHANGED codecVars

\* a lone surrogate, which the utf-8-sig encoder refuses
unencodable(text) == \E k \in 1..Len(text) : text[k] \in 55296..57343

\* run, lines 211-212: the output file is opened (created empty), then
\* written
WriteOutput ==
    /\ pc = "write"
    /\ IF unencodable(final_ass[1])
       THEN /\ output_file' = Some(<<>>)
            /\ pc' = "write_failed"
       ELSE /\ output_file' = final_ass
            /\ pc' = "done"
    /\ UNCHANGED <<input_exists, file_text, prefix_shapes, content,
                   matches, scan_i, seen, drawings, drawing_to_char,
                   ttf_data, callback_log, subbed_text, final_ass,
                   extracted>>
    /\ UNCHANGED codecVars

\* ass-font-extractor.py run on the optimized file
ExtractFonts ==
    /\ pc = "done"
    /\ extracted' = Some(extract_font_agnostic(output_file[1]))
    /\ pc' = "verified"
    /\ UNCHANGED <<input_exists, file_text, prefix_shapes, content,
                   matches, scan_i, seen, drawings, drawing_to_char,
                   ttf_data, callback_log, subbed_text, final_ass,
                   output_file>>
    /\ UNCHANGED codecVars

\* the state of a new ASSDrawingSubsetter (lines 108-112)
NewSubsetter ==
    /\ content = <<>>
    /\ drawings = <<>>
    /\ drawing_to_char = <<>>

\* nothing of the run has happened yet
NothingRun ==
    /\ matches = <<>>
    /\ scan_i = 0
    /\ seen = <<>>
    /\ ttf_data = None
    /\ callback_log = <<>>
    /\ subbed_text = None
    /\ final_ass = None
    /\ output_file = None
    /\ extracted = None

InitRun ==
    /\ input_exists \in BOOLEAN
    /\ file_text \in (IF input_exists THEN Documents ELSE {<<>>})
    /\ prefix_shapes = 0
    /\ NewSubsetter
    /\ NothingRun
    /\ pc = "start"

CodecIdle ==
    /\ cdata = <<>>
    /\ cenc = None
    /\ cdec = None
    /\ cpc = "idle"

Init == InitRun /\ CodecIdle

Next ==
    \/ Load
    \/ ScanStep
    \/ ScanDone
    \/ NoDrawings
    \/ CreateSubsetTtf
    \/ CreateSubsetTtfFails
    \/ RewriteAss
    \/ WriteOutput
    \/ ExtractFonts

Spec == Init /\ [][Next]_vars

(***************************************************************************)
(* The codec on its own: bytes are encoded, the string is decoded.         *)
(***************************************************************************)
Encode ==
    /\ cpc = "input"
    /\ cenc' = Some(ass_uuencode(cdata))
    /\ cpc' = "encoded"
    /\ UNCHANGED <<cdata, cdec>>
    /\ UNCHANGED runVars

Decode ==
    /\ cpc = "encoded"
    /\ cdec' = Some(ass_uudecode(cenc[1]))
    /\ cpc' = "decoded"
    /\ UNCHANGED <<cdata, cenc>>
    /\ UNCHANGED runVars

RunIdle ==
    /\ input_exists = FALSE
    /\ file_text = <<>>
    /\ prefix_shapes = 0
    /\ NewSubsetter
    /\ NothingRun
    /\ pc = "idle"

InitCodec ==
    /\ RunIdle
    /\ cdata \in SeqsUpTo(ByteValues, MaxBytes)
    /\ cenc = None
    /\ cdec = None
    /\ cpc = "input"

NextCodec == Encode \/ Decode

SpecCodec == InitCodec /\ [][NextCodec]_vars

(***************************************************************************)
(* The scan near the last character chr() gives.  The run stands after     *)
(* line 123 with a document whose first part, which is not spelled out,    *)
(* holds prefix_shapes distinct shapes, all different from the shapes of   *)
(* the rest; the loop has passed that part, so the characters START_CHAR   *)
(* to START_CHAR + prefix_shapes - 1 are taken.  content, matches and seen *)
(* hold the rest of the document and the entries made for it.              *)
(***************************************************************************)
\* the number of characters from START_CHAR to the last one chr() gives
Capacity == MAX_UNICODE - START_CHAR + 1

\* how far below Capacity the unspelled part of the document may stop
CapacitySlack == 2

\* the spelled rest of the document: blocks and line ends
CapacityDocuments ==
    {Concat(parts) : parts \in SeqsUpTo({FRAG_BLOCK, FRAG_BLOCK_WS, FRAG_BLOCK_2,
                                          FRAG_BLOCK_E, FRAG_NEWLINE}, MaxParts)}

InitCapacity ==
    /\ input_exists = TRUE
    /\ file_text \in CapacityDocuments
    /\ prefix_shapes \in {0} \cup ((Capacity - CapacitySlack)..Capacity)
    /\ content = file_text
    /\ matches = re_findall(file_text)
    /\ scan_i = 1
    /\ seen = <<>>
    /\ drawings = <<>>
    /\ drawing_to_char = <<>>
    /\ ttf_data = None
    /\ callback_log = <<>>
    /\ subbed_text = None
    /\ final_ass = None
    /\ output_file = None
    /\ extracted = None
    /\ pc = "scan"
    /\ CodecIdle

NextCapacity ==
    \/ ScanStep
    \/ ScanDone
    \/ NoDrawings
    \/ CreateSubsetTtf
    \/ CreateSubsetTtfFails
    \/ RewriteAss
    \/ WriteOutput

SpecCapacity == InitCapacity /\ [][NextCapacity]_vars

(***************************************************************************)
(* The claims.                                                             *)
(***************************************************************************)

\* C1: codec round trip.  Decoding what ass_uuencode returned for a byte
\* sequence gives back exactly that byte sequence, for every length
\* (0, 1 and 2 modulo 3 included): no byte is missing, none is added.
C1_RoundTrip == cpc = "decoded" => cdec = Some(cdata)

\* a sequence that ends in a group of one byte has made the round trip
C1_Witness ==
    /\ cpc = "decoded"
    /\ Len(cdata) = 4
    /\ Len(cenc[1]) = 6
    /\ cdec = Some(cdata)

\* C7: the output file is opened only after load_and_extract found the
\* input and at least one shape, create_subset_ttf returned bytes and
\* rewrite_ass returned; a run that ends on a missing input, on no shape or
\* on a failure of create_subset_ttf has written no output file.
C7_OutputOnlyOnSuccess ==
    /\ output_file # None =>
          /\ input_exists
          /\ ~no_drawings
          /\ ttf_data # None
          /\ final_ass # None
    /\ pc \in {"exit1", "returned", "ttf_failed"} => output_file = None

\* a run wrote its output
C7_Witness == pc = "done" /\ output_file = final_ass /\ final_ass # None

\* the run is past load_and_extract: self.drawing_to_char is set
Loaded ==
    pc \in {"loaded", "returned", "ttf_failed", "rewrite", "write",
            "write_failed", "done", "verified"}

\* the distinct non-empty canonical payloads of the first n matches, in the
\* order of their first occurrence
RECURSIVE distinct_shapes(_, _)
distinct_shapes(ms, n) ==
    IF n = 0 THEN <<>>
    ELSE LET before == distinct_shapes(ms, n - 1)
             key    == clean_d(ms[n][2])
         IN  IF key = <<>> \/ \E k \in 1..Len(before) : before[k] = key
             THEN before
             ELSE Append(before, key)

\* d maps the k-th of `shapes` to the character START_CHAR + (k - 1), maps
\* nothing else, and gives no character to two shapes
assigns_in_order(d, shapes) ==
    /\ DOMAIN d = {shapes[k] : k \in 1..Len(shapes)}
    /\ \A k \in 1..Len(shapes) : d[shapes[k]] = <<START_CHAR + (k - 1)>>
    /\ \A x \in DOMAIN d : \A y \in DOMAIN d : d[x] = d[y] => x = y

\* C4: after every pass of the loop of load_and_extract the registry maps
\* the distinct shapes seen so far, one to one, onto the consecutive
\* characters from 'a': the k-th distinct shape in document order holds
\* 'a' + (k - 1).  A shape is a canonical payload with at least one token.
\* Since the shapes of a longer part of the document extend those of a
\* shorter one, a registered shape keeps its character.
C4_RegistryInvariant ==
    /\ pc = "scan" =>
          /\ assigns_in_order(seen, distinct_shapes(matches, scan_i - 1))
          /\ drawings = distinct_shapes(matches, scan_i - 1)
    /\ Loaded =>
          /\ assigns_in_order(drawing_to_char,
                              distinct_shapes(matches, Len(matches)))
          /\ drawings = distinct_shapes(matches, Len(matches))

\* three blocks were scanned, one of them a shape seen before
C4_Witness ==
    /\ pc = "scan"
    /\ scan_i = 4
    /\ Len(drawings) = 2
    /\ \E k \in 1..3 : \E j \in 1..(k - 1) :
          clean_d(matches[k][2]) = clean_d(matches[j][2])

\* the registry entries whose tokens are those of the payload
entries_for(payload) ==
    {d \in DOMAIN drawing_to_char : Split(d) = Split(payload)}

\* blocks i and j were rewritten to their start tags, with the drawing mode
\* replaced, followed by one and the same character of the registry
same_character(i, j) ==
    \E d \in DOMAIN drawing_to_char :
        /\ callback_log[i] = sub_draw_mode(matches[i][1], 1) \o drawing_to_char[d]
        /\ callback_log[j] = sub_draw_mode(matches[j][1], 1) \o drawing_to_char[d]

\* matches i and j differ as blocks and hold the same tokens
same_tokens(i, j) ==
    /\ i < j
    /\ Split(matches[i][2]) = Split(matches[j][2])

\* C3 as stated: any two matched blocks whose payloads hold the same tokens
\* make one registry entry, and both are rewritten to the same character.
C3_Original ==
    \A i \in 1..Len(matches) : \A j \in 1..Len(matches) :
        same_tokens(i, j) =>
            /\ Loaded => Cardinality(entries_for(matches[i][2])) = 1
            /\ final_ass # None => same_character(i, j)

\* C3, amended: any two matched blocks whose payloads hold the same tokens,
\* and at least one token, make one registry entry, and both are rewritten
\* to the same character.
C3_Amended ==
    \A i \in 1..Len(matches) : \A j \in 1..Len(matches) :
        same_tokens(i, j) /\ Split(matches[i][2]) # <<>> =>
            /\ Loaded => Cardinality(entries_for(matches[i][2])) = 1
            /\ final_ass # None => same_character(i, j)

\* two blocks with the same tokens and different whitespace were rewritten
C3_Witness ==
    /\ final_ass # None
    /\ \E i \in 1..Len(matches) : \E j \in 1..Len(matches) :
          /\ same_tokens(i, j)
          /\ Split(matches[i][2]) # <<>>
          /\ matches[i][2] # matches[j][2]
          /\ same_character(i, j)

\* block k was replaced by its start tag, with the drawing mode replaced,
\* followed by the character of its payload
block_replaced(k) ==
    LET key == clean_d(matches[k][2])
    IN  /\ key \in DOMAIN drawing_to_char
        /\ callback_log[k] =
              sub_draw_mode(matches[k][1], 1) \o drawing_to_char[key]

\* block k was left as it was
block_untouched(k) ==
    callback_log[k] = matches[k][1] \o matches[k][2] \o matches[k][3]

\* C8 as stated: every matched block, one with an empty or whitespace-only
\* payload included, is registered by load_and_extract and replaced in
\* rewrite_ass; none is left untouched.
C8_Original ==
    /\ Loaded =>
          \A k \in 1..Len(matches) :
              clean_d(matches[k][2]) \in DOMAIN drawing_to_char
    /\ final_ass # None =>
          /\ Len(callback_log) = Len(matches)
          /\ \A k \in 1..Len(matches) : block_replaced(k)

\* C8, amended: every matched block whose payload holds a character that is
\* not whitespace is registered and replaced; a block whose payload is
\* empty or whitespace-only is not registered and is left untouched.
C8_Amended ==
    /\ Loaded =>
          \A k \in 1..Len(matches) :
              clean_d(matches[k][2]) \in DOMAIN drawing_to_char
                  <=> \E c \in 1..Len(matches[k][2]) : ~IsSpace(matches[k][2][c])
    /\ final_ass # None =>
          /\ Len(callback_log) = Len(matches)
          /\ \A k \in 1..Len(matches) :
                IF \E c \in 1..Len(matches[k][2]) : ~IsSpace(matches[k][2][c])
                THEN block_replaced(k)
                ELSE block_untouched(k)

\* a document with a whitespace-only block and a block with a payload that
\* needed canonicalizing was rewritten
C8_Witness ==
    /\ final_ass # None
    /\ \E k \in 1..Len(matches) :
          /\ matches[k][2] # <<>>
          /\ clean_d(matches[k][2]) = <<>>
          /\ block_untouched(k)
    /\ \E k \in 1..Len(matches) :
          /\ clean_d(matches[k][2]) # matches[k][2]
          /\ block_replaced(k)

(***************************************************************************)
(* C5: what rewrite_ass leaves alone.                                      *)
(***************************************************************************)
\* position i lies in one of the blocks bl
in_block(bl, i) == \E k \in 1..Len(bl) : bl[k].start <= i /\ i <= bl[k].stop

\* by how much the text has grown after the first n of the blocks bl were
\* replaced by the texts of log
RECURSIVE growth(_, _, _)
growth(bl, log, n) ==
    IF n = 0 THEN 0
    ELSE growth(bl, log, n - 1) + Len(log[n]) - (bl[n].stop - bl[n].start + 1)

\* where character i of the input, which is in no block, stands in the text
\* after the block replacements
sub_pos(bl, log, i) ==
    i + growth(bl, log, Cardinality({k \in 1..Len(bl) : bl[k].stop < i}))

\* re.sub copied every character of s outside the blocks to sub
gaps_copied(s, bl, log, sub) ==
    /\ Len(sub) = Len(s) + growth(bl, log, Len(bl))
    /\ \A i \in 1..Len(s) : ~in_block(bl, i) => sub[sub_pos(bl, log, i)] = s[i]

\* the returned text without the font block appended to it
body == SubSeq(final_ass[1], 1,
               Len(final_ass[1]) - Len(font_block(ttf_data[1])))

\* C5 as stated: all that lies outside the matched blocks and before a font
\* section of the document stands in the returned text as it stood in the
\* input, leading and trailing whitespace included.
C5_Original ==
    final_ass # None =>
        LET bl  == find_spans(content, 1)
            sub == subbed_text[1]
            old == fonts_cut(sub)   \* where a font section of the document starts
            out == body
        IN  /\ gaps_copied(content, bl, callback_log, sub)
            /\ Len(out) = old - 1
            /\ \A i \in 1..Len(content) :
                  ~in_block(bl, i) /\ sub_pos(bl, callback_log, i) < old
                      => out[sub_pos(bl, callback_log, i)] = content[i]

\* C5, amended: all that lies outside the matched blocks and before a font
\* section of the document stands in the returned text as it stood in the
\* input, except the whitespace at the very start and at the very end of
\* the text before the font section, which is dropped.
C5_Amended ==
    final_ass # None =>
        LET bl    == find_spans(content, 1)
            sub   == subbed_text[1]
            old   == fonts_cut(sub)
            out   == body
            solid == {q \in 1..(old - 1) : ~IsSpace(sub[q])}
            first == Least(solid)
            last  == Greatest(solid)
        IN  /\ gaps_copied(content, bl, callback_log, sub)
            /\ IF solid = {} THEN out = <<>>
               ELSE /\ Len(out) = last - first + 1
                    /\ \A i \in 1..Len(content) :
                          /\ ~in_block(bl, i)
                          /\ first <= sub_pos(bl, callback_log, i)
                          /\ sub_pos(bl, callback_log, i) <= last
                          => out[sub_pos(bl, callback_log, i) - first + 1]
                                = content[i]

\* a document that starts with whitespace and holds a block followed by
\* text was rewritten
C5_Witness ==
    /\ final_ass # None
    /\ find_spans(content, 1) # <<>>
    /\ IsSpace(content[1])
    /\ ~in_block(find_spans(content, 1), Len(content))
    /\ ~IsSpace(content[Len(content)])
    /\ body[Len(body)] = content[Len(content)]

(***************************************************************************)
(* C6: the scan at the end of the range of chr().                          *)
(***************************************************************************)
\* the distinct shapes of the document, the part not spelled out included
shapes_total == prefix_shapes + Len(distinct_shapes(matches, Len(matches)))

\* C6: when the document holds more distinct shapes than there are
\* characters from 'a' to the last one chr() gives, the run ends in the
\* scan on the ValueError of chr(), before create_subset_ttf, rewrite_ass
\* and the opening of the output file; no identifier wraps around (each is
\* a character above those taken before it and at most the last one of
\* chr()) and no two shapes hold the same identifier.
C6_CapacityError ==
    /\ shapes_total > Capacity =>
          /\ pc \in {"scan", "chr_failed"}
          /\ ttf_data = None
          /\ final_ass = None
          /\ output_file = None
    /\ pc = "chr_failed" => shapes_total > Capacity
    /\ \A d \in DOMAIN seen :
          /\ seen[d][1] >= START_CHAR + prefix_shapes
          /\ seen[d][1] <= MAX_UNICODE
    /\ \A x \in DOMAIN seen : \A y \in DOMAIN seen : seen[x] = seen[y] => x = y

\* the last character was given to a shape, and the next shape ended the run
C6_Witness ==
    /\ pc = "chr_failed"
    /\ \E d \in DOMAIN seen : seen[d] = <<MAX_UNICODE>>
    /\ output_file = None

(***************************************************************************)
(* C2, C9, C10: statements the program does not meet.                      *)
(***************************************************************************)
\* f"{FONT_NAME}_0.ttf", the name written in the font block (line 193)
FONT_FILE_NAME == FONT_NAME \o <<95, 48, 46, 116, 116, 102>>

\* C2: extract_font_agnostic, run on the text rewrite_ass returned, writes
\* under the font name of the [Fonts] block exactly the bytes that
\* create_subset_ttf returned, whatever the data lines hold.
C2_Claim ==
    pc = "verified" => file_after(extracted[1], FONT_FILE_NAME) = ttf_data

\* a line without its line end
chomp(line) ==
    IF line # <<>> /\ line[Len(line)] = 10
    THEN SubSeq(line, 1, Len(line) - 1) ELSE line

\* the lines of the returned text that are the header [Fonts]
header_lines(lines) ==
    {k \in 1..Len(lines) : chomp(lines[k]) = Tail(FONTS_PATTERN)}

\* C9: the text rewrite_ass returned holds exactly one [Fonts] header; the
\* line after it names the font, and the lines after that are the data:
\* each of LINE_WIDTH characters but possibly the last, together
\* ass_uuencode(ttf_data).  So nothing of a font section that was in the
\* document remains.
C9_Claim ==
    final_ass # None =>
        LET lines == readlines(final_ass[1])
        IN  /\ Cardinality(header_lines(lines)) = 1
            /\ LET h    == CHOOSE k \in header_lines(lines) : TRUE
                   data == [k \in 1..(Len(lines) - h - 1) |->
                               chomp(lines[h + 1 + k])]
               IN  /\ h + 1 <= Len(lines)
                   /\ chomp(lines[h + 1]) =
                         <<102, 111, 110, 116, 110, 97, 109, 101, 58, 32>>
                         \o FONT_FILE_NAME
                   /\ \A k \in 1..Len(data) :
                         /\ Len(data[k]) >= 1
                         /\ Len(data[k]) <= LINE_WIDTH
                         /\ k < Len(data) => Len(data[k]) = LINE_WIDTH
                   /\ Concat(data) = ass_uuencode(ttf_data[1])

\* a tag starts at position q of t, holds \p0 and sets no other drawing mode
sets_level0(t, q) ==
    /\ q >= 1
    /\ q <= Len(t)
    /\ t[q] = 123
    /\ LET closes == {j \in (q + 1)..Len(t) : t[j] = 125}
       IN  /\ closes # {}
           /\ \E k \in (q + 1)..(Least(closes) - 3) :
                 t[k] = 92 /\ Lower(t[k + 1]) = 112 /\ t[k + 2] = 48
           /\ ~(\E k \in (q + 1)..(Least(closes) - 3) : draw_directive_at(t, k))

\* C10: a matched block ends at the first tag after its start tag that
\* sets drawing mode 0, so its payload holds no such tag and a match never
\* runs past one into a following block; rewrite_ass finds the blocks that
\* load_and_extract found.
C10_Claim ==
    /\ \A k \in 1..Len(matches) :
          /\ \A q \in 1..Len(matches[k][2]) : ~sets_level0(matches[k][2], q)
          /\ sets_level0(matches[k][3], 1)
    /\ final_ass # None => Len(callback_log) = Len(matches)

=============================================================================
